---------------------------- MODULE Spec2Model ----------------------------
(***************************************************************************)
(* Model of color_added.py: a background SerialReader thread that reads a  *)
(* serial port and enqueues tagged messages, and the GridApp controller    *)
(* that starts/stops readers and drains the queue into a 20x10 grid of     *)
(* colour-coded cells.                                                     *)
(*                                                                         *)
(* Python strings are modelled as sequences of one-character strings, so   *)
(* that str(), int(), strip() and decode() are computed, not assumed.      *)
(***************************************************************************)
EXTENDS Integers, Sequences, FiniteSets, TLC

\* ------------------------------------------------------------------
\* Configuration (module-level constants of the program)
\* ------------------------------------------------------------------
DEFAULT_PORT == <<"C", "O", "M", "8">>
DEFAULT_BAUD == 115200
ROWS == 20
COLS == 10
TOTAL_CELLS == ROWS * COLS

\* ------------------------------------------------------------------
\* Bounds of the model
\* ------------------------------------------------------------------
\* SerialReader objects created over a run (Connect presses that pass validation).
MaxWorkers == 2
\* Items the device delivers over a run (length of the wire).
MaxWire == 2

\* ------------------------------------------------------------------
\* Python string and integer conversions
\* ------------------------------------------------------------------
Digits == <<"0", "1", "2", "3", "4", "5", "6", "7", "8", "9">>

IsDigit(c) == \E i \in 1..Len(Digits) : Digits[i] = c

DigitVal(c) == (CHOOSE i \in 1..Len(Digits) : Digits[i] = c) - 1

\* Characters str.strip() removes.
Whitespace == {" ", "\t", "\n", "\r", "\f"}

\* Bytes outside ASCII, which decode("ascii", errors="ignore") drops.
NonAscii == {"0x80", "0xE9", "0xFF"}

RECURSIVE LStrip(_)
LStrip(s) ==
    IF s # <<>> /\ Head(s) \in Whitespace THEN LStrip(Tail(s)) ELSE s

RECURSIVE RStrip(_)
RStrip(s) ==
    IF s # <<>> /\ s[Len(s)] \in Whitespace
    THEN RStrip(SubSeq(s, 1, Len(s) - 1))
    ELSE s

\* str.strip()
Strip(s) == RStrip(LStrip(s))

\* bytes.decode("ascii", errors="ignore")
Decode(line) == SelectSeq(line, LAMBDA c : c \notin NonAscii)

RECURSIVE StrNat(_)
StrNat(n) ==
    IF n < 10 THEN <<Digits[n + 1]>>
    ELSE StrNat(n \div 10) \o <<Digits[(n % 10) + 1]>>

\* str(n) of an int
Str(n) == IF n < 0 THEN <<"-">> \o StrNat(0 - n) ELSE StrNat(n)

\* The digits-and-underscores body of an int literal: digits, with single
\* underscores only between digits.
IsIntBody(s) ==
    /\ s # <<>>
    /\ \A i \in 1..Len(s) : IsDigit(s[i]) \/ s[i] = "_"
    /\ IsDigit(s[1]) /\ IsDigit(s[Len(s)])
    /\ \A i \in 1..(Len(s) - 1) : ~(s[i] = "_" /\ s[i + 1] = "_")

RECURSIVE IntBodyVal(_, _)
IntBodyVal(s, acc) ==
    IF s = <<>> THEN acc
    ELSE IF Head(s) = "_" THEN IntBodyVal(Tail(s), acc)
    ELSE IntBodyVal(Tail(s), 10 * acc + DigitVal(Head(s)))

Unsigned(s) == IF s # <<>> /\ Head(s) \in {"+", "-"} THEN Tail(s) ELSE s

\* int(s) of a str does not raise ValueError
IntParses(s) == IsIntBody(Unsigned(Strip(s)))

\* int(s) of a str, where it parses
IntOf(s) ==
    LET t == Strip(s)
        v == IntBodyVal(Unsigned(t), 0)
    IN IF Head(t) = "-" THEN 0 - v ELSE v

\* ------------------------------------------------------------------
\* Texts of the program
\* ------------------------------------------------------------------
None == 0

Disconnected == <<"Disconnected">>
Idle == <<"Idle">>
InvalidBaud == <<"Invalid baud rate">>
SelectPort == <<"Select/enter a port">>
\* tk.StringVar(value="—"): the one-character initial "last value" text
NoValue == <<"U+2014">>

\* f"Connected: {port} @ {baud} ({'text' if text_mode else 'raw 8-bit'})"
ConnectedText(port, baud, text_mode) ==
    <<"Connected: ">> \o port \o <<" @ ">> \o Str(baud)
        \o <<" (">> \o (IF text_mode THEN <<"text">> ELSE <<"raw 8-bit">>) \o <<")">>

\* f"Connecting to {port} @ {baud} ..."
ConnectingText(port, baud) ==
    <<"Connecting to ">> \o port \o <<" @ ">> \o Str(baud) \o <<" ...">>

\* f"Open failed: {e}" and f"Read error: {e}"; "<e>" is the library's text
OpenFailedText == <<"Open failed: ", "<e>">>
ReadErrorText == <<"Read error: ", "<e>">>

\* f"Error: {payload}"
ErrorText(payload) == <<"Error: ">> \o payload

\* ------------------------------------------------------------------
\* Inputs: what the user types and what the device and the OS deliver
\* ------------------------------------------------------------------
NotANumber == <<"n", "o", "t", "a", "n", "u", "m", "b", "e", "r">>

\* Contents the user gives the Port and Baud fields
PortTexts == {DEFAULT_PORT, <<" ">>}
BaudTexts == {Str(DEFAULT_BAUD), NotANumber}

\* Results of list_ports()
PortLists == {<<>>, <<DEFAULT_PORT>>}

\* What the device delivers over a run: bytes in raw mode, and in text mode the
\* byte strings readline() returns (a timeout, which returns b"", is ReadTimeout).
\* Where the connection's life cycle is explored the device sends one stream of
\* bytes, alternately below and above the colour thresholds
Stream == [i \in 1..MaxWire |-> IF i % 2 = 1 THEN 19 ELSE 60]

\* The device's repertoire when the grid is exercised
GridBytes == {0, 19, 20, 59, 60, 255}
GridLines ==
    { <<"-", "3", "\r", "\n">>,
      <<" ", "6", "0", "\n">>,
      <<"a", "b", "c", "\n">>,
      <<"0xE9", "5", "9", "\n">>,
      <<"2", "_", "0">>,
      <<"\r", "\n">> }
\* The bytes of the worked scenario of the specification
ScenarioBytes == <<5, 25, 65, 15>>

GridWires(text_mode) ==
    [1..MaxWire -> IF text_mode THEN GridLines ELSE GridBytes]
        \cup (IF text_mode THEN {} ELSE {ScenarioBytes})

\* Positions of the write cursor the grid is exercised from
StartIndexes == {0, TOTAL_CELLS - 2, TOTAL_CELLS - 1}
\* The reading that filled the cells before the cursor
PriorReading == <<"5">>

\* ------------------------------------------------------------------
\* State
\* ------------------------------------------------------------------
VARIABLES
    TEXT_MODE,    \* the build's mode flag
    script,       \* what the device transmits in one pass, in order
    wire,         \* what the device has still to deliver of this pass
    workers,      \* the SerialReader objects: pc, _stop, ser, port, baud, text_mode,
                  \* val; raised is history: the SerialException run() has caught
    queue,        \* GridApp.queue
    reader,       \* GridApp.reader (None or a worker)
    status_var,   \* GridApp.status_var
    last_value,   \* GridApp.last_value
    index,        \* GridApp.index, the write cursor
    labels,       \* GridApp.labels[r][c]: text and bg of each cell
    port_var,     \* GridApp.port_var
    baud_var,     \* GridApp.baud_var
    uiPc,         \* "idle", or "polling" inside process_queue's loop
    nconsumed     \* history: value messages consumed so far, counted modulo
                  \* two passes over the grid

vars == <<TEXT_MODE, script, wire, workers, queue, reader, status_var, last_value,
          index, labels, port_var, baud_var, uiPc, nconsumed>>

uiVars == <<reader, status_var, last_value, index, labels, port_var, baud_var,
            uiPc, nconsumed>>

Workers == 1..MaxWorkers

\* SerialReader.__init__ has not run for this object yet
Unborn ==
    [pc |-> "unborn", stop |-> FALSE, ser |-> "None", port |-> <<>>, baud |-> 0,
     text_mode |-> FALSE, val |-> <<>>, raised |-> "none"]

\* SerialReader.__init__
NewReader(port, baud, text_mode) ==
    [pc |-> "new", stop |-> FALSE, ser |-> "None", port |-> port, baud |-> baud,
     text_mode |-> text_mode, val |-> <<>>, raised |-> "none"]

\* Thread.start(): run() is about to execute
Started(r) == [r EXCEPT !.pc = "started"]

Alive(w) == workers[w].pc \notin {"unborn", "done"}

Message(kind, payload, src) == [kind |-> kind, payload |-> payload, src |-> src]

\* A slip: a queue that hands out the newest message first
PutLifo(w, kind, payload) ==
    queue' = <<Message(kind, payload, w)>> \o queue

\* out_q.put((kind, payload)) by worker w
Put(w, kind, payload) ==
    queue' = Append(queue, Message(kind, payload, w))

BlankCell == [text |-> <<>>, bg |-> "white"]

\* The cell of flat index idx: row idx // COLS, column idx % COLS
CellOf(grid, idx) == grid[idx \div COLS][idx % COLS]
Cell(idx) == CellOf(labels, idx)

\* refresh_ports: keep the selection if listed, else take the first port
RefreshedPort(cur, ports) ==
    IF (\A i \in 1..Len(ports) : ports[i] # cur) /\ ports # <<>>
    THEN ports[1] ELSE cur

\* GridApp.__init__
Init ==
    /\ TEXT_MODE = FALSE
    /\ script = Stream
    /\ wire = script
    /\ workers = [w \in Workers |-> Unborn]
    /\ queue = <<>>
    /\ reader = None
    /\ status_var = Idle
    /\ last_value = NoValue
    /\ index = 0
    /\ labels = [r \in 0..(ROWS - 1) |-> [c \in 0..(COLS - 1) |-> BlankCell]]
    /\ \E ports \in PortLists : port_var = RefreshedPort(DEFAULT_PORT, ports)
    /\ baud_var = Str(DEFAULT_BAUD)
    /\ uiPc = "idle"
    /\ nconsumed = 0

\* ------------------------------------------------------------------
\* SerialReader
\* ------------------------------------------------------------------
\* SerialReader.stop, called on the UI thread
Stop(r) ==
    [r EXCEPT !.stop = TRUE,
              !.ser = IF r.ser = "open" THEN "closed" ELSE r.ser]

\* run(): serial.Serial(port, baudrate, timeout=1) returns, or raises SerialException
Open(w) ==
    /\ workers[w].pc = "started"
    /\ \/ workers' = [workers EXCEPT ![w].ser = "open", ![w].pc = "put_connected"]
       \/ workers' = [workers EXCEPT ![w].pc = "put_open_failed",
                                     ![w].raised = "open"]
    /\ UNCHANGED <<TEXT_MODE, script, wire, queue, uiVars>>

PutConnected(w) ==
    /\ workers[w].pc = "put_connected"
    /\ Put(w, "__STATUS__",
           ConnectedText(workers[w].port, workers[w].baud, workers[w].text_mode))
    /\ workers' = [workers EXCEPT ![w].pc = "loop"]
    /\ UNCHANGED <<TEXT_MODE, script, wire, uiVars>>

\* A slip: no return after the open failure, so run() goes on to the read loop
PutOpenFailedNoReturn(w) ==
    /\ workers[w].pc = "put_open_failed"
    /\ Put(w, "__ERROR__", OpenFailedText)
    /\ workers' = [workers EXCEPT ![w].pc = "loop"]
    /\ UNCHANGED <<TEXT_MODE, script, wire, uiVars>>

\* run(): the except branch of the open, which puts the error and returns
PutOpenFailed(w) ==
    /\ workers[w].pc = "put_open_failed"
    /\ Put(w, "__ERROR__", OpenFailedText)
    /\ workers' = [workers EXCEPT ![w].pc = "done"]
    /\ UNCHANGED <<TEXT_MODE, script, wire, uiVars>>

\* while not self._stop.is_set()
LoopCheck(w) ==
    /\ workers[w].pc = "loop"
    /\ workers' = [workers EXCEPT
                     ![w].pc = IF workers[w].stop THEN "close" ELSE "read"]
    /\ UNCHANGED <<TEXT_MODE, script, wire, queue, uiVars>>

\* The str a delivered item becomes: line.decode(...).strip(), or str(int(b[0]))
Reading(text_mode, item) ==
    IF text_mode THEN Strip(Decode(item)) ELSE Str(item)

\* readline() / read(1) returns data
ReadData(w) ==
    /\ workers[w].pc = "read"
    /\ workers[w].ser = "open"
    /\ wire # <<>>
    /\ wire' = Tail(wire)
    /\ LET s == Reading(workers[w].text_mode, Head(wire))
       IN workers' = IF s = <<>>
                     THEN [workers EXCEPT ![w].pc = "loop"]
                     ELSE [workers EXCEPT ![w].val = s, ![w].pc = "put_value"]
    /\ UNCHANGED <<TEXT_MODE, script, queue, uiVars>>

\* readline() / read(1) times out and returns b""
ReadTimeout(w) ==
    /\ workers[w].pc = "read"
    /\ workers[w].ser = "open"
    /\ workers' = [workers EXCEPT ![w].pc = "loop"]
    /\ UNCHANGED <<TEXT_MODE, script, wire, queue, uiVars>>

\* the read raises serial.SerialException (always possible; certain once
\* stop() has closed the port under the reader)
ReadSerialException(w) ==
    /\ workers[w].pc = "read"
    /\ workers' = [workers EXCEPT ![w].pc = "put_read_error", ![w].raised = "read"]
    /\ UNCHANGED <<TEXT_MODE, script, wire, queue, uiVars>>

\* the read raises another Exception: ignored, the loop continues
ReadOtherException(w) ==
    /\ workers[w].pc = "read"
    /\ workers' = [workers EXCEPT ![w].pc = "loop"]
    /\ UNCHANGED <<TEXT_MODE, script, wire, queue, uiVars>>

PutValue(w) ==
    /\ workers[w].pc = "put_value"
    /\ Put(w, "value", workers[w].val)
    /\ workers' = [workers EXCEPT ![w].val = <<>>, ![w].pc = "loop"]
    /\ UNCHANGED <<TEXT_MODE, script, wire, uiVars>>

\* A slip: the read loop goes on after a SerialException
PutReadErrorContinue(w) ==
    /\ workers[w].pc = "put_read_error"
    /\ Put(w, "__ERROR__", ReadErrorText)
    /\ workers' = [workers EXCEPT ![w].pc = "loop"]
    /\ UNCHANGED <<TEXT_MODE, script, wire, uiVars>>

PutReadError(w) ==
    /\ workers[w].pc = "put_read_error"
    /\ Put(w, "__ERROR__", ReadErrorText)
    /\ workers' = [workers EXCEPT ![w].pc = "close"]
    /\ UNCHANGED <<TEXT_MODE, script, wire, uiVars>>

\* A slip: run() ends without closing its port
CloseLeavesOpen(w) ==
    /\ workers[w].pc = "close"
    /\ workers' = [workers EXCEPT ![w].pc = "put_disconnected"]
    /\ UNCHANGED <<TEXT_MODE, script, wire, queue, uiVars>>

\* if self.ser and self.ser.is_open: self.ser.close()
Close(w) ==
    /\ workers[w].pc = "close"
    /\ workers' = [workers EXCEPT
                     ![w].ser = IF workers[w].ser = "open" THEN "closed" ELSE @,
                     ![w].pc = "put_disconnected"]
    /\ UNCHANGED <<TEXT_MODE, script, wire, queue, uiVars>>

\* A slip: the reader thread writes the status readout itself
PutDisconnectedDirect(w) ==
    /\ workers[w].pc = "put_disconnected"
    /\ Put(w, "__STATUS__", Disconnected)
    /\ status_var' = Disconnected
    /\ workers' = [workers EXCEPT ![w].pc = "done"]
    /\ UNCHANGED <<TEXT_MODE, script, wire, reader, last_value, index, labels,
                   port_var, baud_var, uiPc, nconsumed>>

PutDisconnected(w) ==
    /\ workers[w].pc = "put_disconnected"
    /\ Put(w, "__STATUS__", Disconnected)
    /\ workers' = [workers EXCEPT ![w].pc = "done"]
    /\ UNCHANGED <<TEXT_MODE, script, wire, uiVars>>

Run(w) ==
    \/ Open(w) \/ PutConnected(w) \/ PutOpenFailed(w)
    \/ LoopCheck(w)
    \/ ReadData(w) \/ ReadTimeout(w) \/ ReadSerialException(w) \/ ReadOtherException(w)
    \/ PutValue(w) \/ PutReadError(w)
    \/ Close(w) \/ PutDisconnected(w)

\* ------------------------------------------------------------------
\* GridApp
\* ------------------------------------------------------------------
\* refresh_ports (the combobox's list of values is not read back and is left out)
Refresh ==
    /\ uiPc = "idle"
    /\ \E ports \in PortLists : port_var' = RefreshedPort(port_var, ports)
    /\ UNCHANGED <<TEXT_MODE, script, wire, workers, queue, reader, status_var,
                   last_value, index, labels, baud_var, uiPc, nconsumed>>

\* disconnect: the workers, reader and status it leaves
DisconnectedWorkers ==
    IF reader # None THEN [workers EXCEPT ![reader] = Stop(@)] ELSE workers

DisconnectedStatus ==
    IF reader # None THEN Disconnected ELSE status_var

Disconnect ==
    /\ uiPc = "idle"
    /\ workers' = DisconnectedWorkers
    /\ reader' = None
    /\ status_var' = DisconnectedStatus
    /\ UNCHANGED <<TEXT_MODE, script, wire, queue, last_value, index, labels,
                   port_var, baud_var, uiPc, nconsumed>>

\* The next SerialReader object to be constructed
Fresh == CHOOSE w \in Workers :
            /\ workers[w].pc = "unborn"
            /\ \A v \in Workers : v < w => workers[v].pc # "unborn"

\* baud = int(self.baud_var.get().strip()) does not raise ValueError
BaudParses(baud_text) == IntParses(Strip(baud_text))

\* connect, when int(baud) raises ValueError
ConnectInvalidBaud ==
    /\ ~BaudParses(baud_var')
    /\ workers' = DisconnectedWorkers
    /\ reader' = None
    /\ status_var' = InvalidBaud

\* connect, when the stripped port is empty
ConnectNoPort ==
    /\ BaudParses(baud_var')
    /\ Strip(port_var') = <<>>
    /\ workers' = DisconnectedWorkers
    /\ reader' = None
    /\ status_var' = SelectPort

\* A slip: the port is tested before it is stripped
ConnectStartUnstripped ==
    /\ BaudParses(baud_var')
    /\ port_var' # <<>>
    /\ \E w \in Workers : workers[w].pc = "unborn"
    /\ LET port == Strip(port_var')
           baud == IntOf(Strip(baud_var'))
       IN /\ status_var' = ConnectingText(port, baud)
          /\ workers' = [DisconnectedWorkers EXCEPT
                           ![Fresh] = Started(NewReader(port, baud, TEXT_MODE))]
          /\ reader' = Fresh

\* connect, when both fields pass: a new SerialReader is started
ConnectStart ==
    /\ BaudParses(baud_var')
    /\ Strip(port_var') # <<>>
    /\ \E w \in Workers : workers[w].pc = "unborn"
    /\ LET port == Strip(port_var')
           baud == IntOf(Strip(baud_var'))
       IN /\ status_var' = ConnectingText(port, baud)
          /\ workers' = [DisconnectedWorkers EXCEPT
                           ![Fresh] = Started(NewReader(port, baud, TEXT_MODE))]
          /\ reader' = Fresh

\* A slip: Connect starts the grid again from the first cell
ConnectRewinding ==
    /\ uiPc = "idle"
    /\ \E p \in PortTexts, b \in BaudTexts : port_var' = p /\ baud_var' = b
    /\ \/ ConnectInvalidBaud
       \/ ConnectNoPort
       \/ ConnectStart
    /\ index' = 0
    /\ UNCHANGED <<TEXT_MODE, script, wire, queue, last_value, labels, uiPc,
                   nconsumed>>

\* The user leaves the Port and Baud fields holding some text and presses
\* Connect; connect reads the fields as they then are
Connect ==
    /\ uiPc = "idle"
    /\ \E p \in PortTexts, b \in BaudTexts : port_var' = p /\ baud_var' = b
    /\ \/ ConnectInvalidBaud
       \/ ConnectNoPort
       \/ ConnectStart
    /\ UNCHANGED <<TEXT_MODE, script, wire, queue, last_value, index, labels, uiPc,
                   nconsumed>>

\* A slip in the first threshold: 20 itself classed red
ColorInclusive(val) ==
    IF val <= 20 THEN "red"
    ELSE IF val < 60 THEN "yellow"
    ELSE "green"

\* set_cell's colour rules
Color(val) ==
    IF val < 20 THEN "red"
    ELSE IF val < 60 THEN "yellow"
    ELSE "green"

\* set_cell: val = int(text_value), or 0 on ValueError
CellValue(text_value) ==
    IF IntParses(text_value) THEN IntOf(text_value) ELSE 0

\* A slip: the label shows the parsed value, not the text received
CellConfigParsed(text_value) ==
    [text |-> Str(CellValue(text_value)), bg |-> Color(CellValue(text_value))]

\* set_cell: what the label is configured with
CellConfig(text_value) ==
    [text |-> text_value, bg |-> Color(CellValue(text_value))]

\* set_cell(idx, text_value)
set_cell(idx, text_value) ==
    LET r == idx \div COLS
        c == idx % COLS
    IN [labels EXCEPT ![r][c] = CellConfig(text_value)]

\* A slip: the cursor is not wrapped
NextIndexNoWrap(i) == i + 1

\* self.index = (self.index + 1) % TOTAL_CELLS
NextIndex(i) == (i + 1) % TOTAL_CELLS

\* The timer fires and process_queue begins
PollStart ==
    /\ uiPc = "idle"
    /\ uiPc' = "polling"
    /\ UNCHANGED <<TEXT_MODE, script, wire, workers, queue, reader, status_var,
                   last_value, index, labels, port_var, baud_var, nconsumed>>

\* One pass of the loop: get_nowait() returns a message
PollError ==
    /\ Head(queue).kind = "__ERROR__"
    /\ status_var' = ErrorText(Head(queue).payload)
    /\ UNCHANGED <<last_value, index, labels, nconsumed>>

PollStatus ==
    /\ Head(queue).kind = "__STATUS__"
    /\ status_var' = Head(queue).payload
    /\ UNCHANGED <<last_value, index, labels, nconsumed>>

PollValue ==
    /\ Head(queue).kind = "value"
    /\ last_value' = Head(queue).payload
    /\ labels' = set_cell(index, Head(queue).payload)
    /\ index' = NextIndex(index)
    /\ nconsumed' = (nconsumed + 1) % (2 * TOTAL_CELLS)
    /\ UNCHANGED status_var

PollStep ==
    /\ uiPc = "polling"
    /\ queue # <<>>
    /\ queue' = Tail(queue)
    /\ \/ PollError
       \/ PollStatus
       \/ PollValue
    /\ UNCHANGED <<TEXT_MODE, script, wire, workers, reader, port_var, baud_var,
                   uiPc>>

\* get_nowait() raises queue.Empty: the loop ends and the timer is set again
PollEnd ==
    /\ uiPc = "polling"
    /\ queue = <<>>
    /\ uiPc' = "idle"
    /\ UNCHANGED <<TEXT_MODE, script, wire, workers, queue, reader, status_var,
                   last_value, index, labels, port_var, baud_var, nconsumed>>

process_queue == PollStart \/ PollStep \/ PollEnd

\* A state of normal operation: one reader, connected and in its read loop,
\* its "Connected" message consumed, the first k0 cells filled by earlier
\* readings and the device about to deliver more
InitGrid ==
    /\ TEXT_MODE \in BOOLEAN
    /\ script \in GridWires(TEXT_MODE)
    /\ wire = script
    /\ workers = [w \in Workers |->
                    IF w = 1
                    THEN [NewReader(DEFAULT_PORT, DEFAULT_BAUD, TEXT_MODE)
                            EXCEPT !.pc = "loop", !.ser = "open"]
                    ELSE Unborn]
    /\ queue = <<>>
    /\ reader = 1
    /\ status_var = ConnectedText(DEFAULT_PORT, DEFAULT_BAUD, TEXT_MODE)
    /\ index \in StartIndexes
    /\ nconsumed = index
    /\ last_value = IF index = 0 THEN NoValue ELSE PriorReading
    /\ labels = [r \in 0..(ROWS - 1) |-> [c \in 0..(COLS - 1) |->
                    IF r * COLS + c < index
                    THEN [text |-> PriorReading, bg |-> "red"]
                    ELSE BlankCell]]
    /\ port_var = DEFAULT_PORT
    /\ baud_var = Str(DEFAULT_BAUD)
    /\ uiPc = "idle"

\* The read loop of the connected reader and the poll cycle
NextGrid ==
    \/ LoopCheck(1)
    \/ ReadData(1) \/ ReadTimeout(1) \/ ReadSerialException(1) \/ ReadOtherException(1)
    \/ PutValue(1) \/ PutReadError(1)
    \/ Close(1) \/ PutDisconnected(1)
    \/ process_queue

SpecGrid == InitGrid /\ [][NextGrid]_vars

Next ==
    \/ \E w \in Workers : Run(w)
    \/ Refresh
    \/ Connect \/ Disconnect
    \/ process_queue

Spec == Init /\ [][Next]_vars

\* The readers and the buttons alone: the timer of process_queue has not fired,
\* so the queue holds every message put so far, in order
NextReaders ==
    \/ \E w \in Workers : Run(w)
    \/ Refresh
    \/ Connect \/ Disconnect

SpecReaders == Init /\ [][NextReaders]_vars

\* A started thread is scheduled until run() returns, and each blocking read
\* returns (data, timeout or exception)
FairReaders == SpecReaders /\ \A w \in Workers : WF_vars(Run(w))

\* The device transmits its pass again (held back while MaxWire messages are
\* waiting in the queue)
DeviceRepeats ==
    /\ wire = <<>>
    /\ Len(queue) < MaxWire
    /\ wire' = script
    /\ UNCHANGED <<TEXT_MODE, script, workers, queue, uiVars>>

\* A connected reader in raw mode on a device that never stops transmitting
InitStream ==
    /\ InitGrid
    /\ TEXT_MODE = FALSE
    /\ script = Stream
    /\ index = 0

NextStream ==
    \/ DeviceRepeats
    \/ LoopCheck(1)
    \/ ReadData(1) \/ ReadTimeout(1) \/ ReadSerialException(1) \/ ReadOtherException(1)
    \/ PutValue(1) \/ PutReadError(1)
    \/ Close(1) \/ PutDisconnected(1)
    \/ process_queue

\* The reader thread is scheduled while it runs, and the Tk timer fires
\* process_queue, whose every get_nowait() returns or raises at once
FairStream ==
    /\ InitStream /\ [][NextStream]_vars
    /\ WF_vars(LoopCheck(1) \/ ReadData(1) \/ ReadTimeout(1)
                  \/ ReadSerialException(1) \/ ReadOtherException(1)
                  \/ PutValue(1) \/ PutReadError(1)
                  \/ Close(1) \/ PutDisconnected(1))
    /\ WF_vars(process_queue)

\* ------------------------------------------------------------------
\* Properties
\* ------------------------------------------------------------------
\* A step of the poll cycle that takes a message off the queue
Consumes == queue # <<>> /\ queue' = Tail(queue)
ConsumesKind(kind) == Consumes /\ Head(queue).kind = kind

\* C1: at most one worker thread is alive at any moment: no state has two
\* workers that have been started and have not left run().
C1_AtMostOneWorkerAlive ==
    Cardinality({w \in Workers : Alive(w)}) <= 1

\* C2: at most one serial connection is open at any moment: no state has two
\* workers each holding an open serial connection.
C2_AtMostOneOpenConnection ==
    Cardinality({w \in Workers : workers[w].ser = "open"}) <= 1

\* C3: the k-th consumed value is written to cell k mod 200: the cursor stays in
\* 0..199, equals the number of values consumed so far modulo 200, advances by
\* exactly one (wrapping) on each consumed value, whatever the value, and does
\* not move on a consumed status or error message.
C3_CursorInRange ==
    /\ index \in 0..(TOTAL_CELLS - 1)
    /\ index = nconsumed % 200

C3_CursorStep ==
    /\ ConsumesKind("value") =>
          /\ nconsumed' = nconsumed + 1
          /\ index' = IF index = 199 THEN 0 ELSE index + 1
          /\ CellOf(labels', nconsumed % 200).text = Head(queue).payload
          /\ \A k \in 0..199 :
                k # nconsumed % 200 => CellOf(labels', k) = CellOf(labels, k)
    /\ (ConsumesKind("__STATUS__") \/ ConsumesKind("__ERROR__")) =>
          /\ index' = index
          /\ nconsumed' = nconsumed
          /\ labels' = labels

C3_RoundRobin == []C3_CursorInRange /\ [][C3_CursorStep]_vars

\* C3 witness: the cursor has wrapped: 201 values consumed, the last one written
\* to cell 0 and the cursor at 1.
C3_Wrapped ==
    /\ nconsumed = 201
    /\ index = 1
    /\ Cell(0).text = last_value
    /\ Cell(0).text # PriorReading

\* The colour the claim gives an integer
C4_Rule(v) ==
    CASE v < 20 -> "red"
      [] 20 <= v /\ v < 60 -> "yellow"
      [] v >= 60 -> "green"

\* C4: every cell that shows an integer v is red if v < 20, yellow if
\* 20 <= v < 60 and green if v >= 60; 19 is red, 20 yellow, 59 yellow, 60 green,
\* a negative value red, and every written cell has exactly one of the three.
C4_ColourRule ==
    \A k \in 0..199 :
        LET cell == Cell(k)
        IN cell.text # <<>> =>
              /\ cell.bg \in {"red", "yellow", "green"}
              /\ cell.text = <<"5">> => cell.bg = "red"
              /\ (cell.text # <<"5">> /\ IntParses(cell.text)) =>
                    cell.bg = C4_Rule(IntOf(cell.text))
              /\ cell.text = <<"1", "9">> => cell.bg = "red"
              /\ cell.text = <<"2", "0">> => cell.bg = "yellow"
              /\ cell.text = <<"5", "9">> => cell.bg = "yellow"
              /\ cell.text = <<"6", "0">> => cell.bg = "green"
              /\ cell.text = <<"-", "3">> => cell.bg = "red"

\* C4 witness: the boundary readings 19 and 20 have reached neighbouring cells,
\* red and yellow.
C4_BoundaryShown ==
    \E k \in 0..198 :
        /\ Cell(k) = [text |-> <<"1", "9">>, bg |-> "red"]
        /\ Cell(k + 1) = [text |-> <<"2", "0">>, bg |-> "yellow"]

\* C5: a consumed reading's text is shown unchanged on the cell at the cursor,
\* and when the text does not parse as an integer that cell is red.
C5_CellStep ==
    ConsumesKind("value") =>
        /\ CellOf(labels', index).text = Head(queue).payload
        /\ ~IntParses(Head(queue).payload) => CellOf(labels', index).bg = "red"

C5_TextShownUnchanged == [][C5_CellStep]_vars

\* C5 witness: the reading "abc" is shown as received, on a red cell.
C5_NonIntegerShown ==
    \E k \in 0..199 : Cell(k) = [text |-> <<"a", "b", "c">>, bg |-> "red"]

\* A status text that does not announce a connection made or being made
ShowsDisconnected(text) == Head(text) \notin {"Connected: ", "Connecting to "}

\* C6: Disconnect, invoked whenever the UI is idle (a second time, or with no
\* connection), leaves the status readout showing a disconnected state.
C6_DisconnectShowsDisconnected ==
    uiPc = "idle" => ShowsDisconnected(DisconnectedStatus)

\* C7: a Connect whose baud field does not parse, or whose port field is blank,
\* starts no worker and makes no connection attempt, and leaves the status
\* readout at the validation message (the invalid-baud message when the baud
\* does not parse, else the select-a-port message).
C7_RejectedStep ==
    (Connect /\ (baud_var' = NotANumber \/ port_var' = <<" ">>)) =>
        /\ \A w \in Workers :
              /\ workers'[w].pc = workers[w].pc
              /\ workers'[w].ser = "open" => workers[w].ser = "open"
        /\ reader' = None
        /\ status_var' = IF baud_var' = NotANumber
                         THEN <<"Invalid baud rate">>
                         ELSE <<"Select/enter a port">>

C7_InvalidInputRejected == [][C7_RejectedStep]_vars

\* C7 witness: Connect was pressed with baud "notanumber" while a reader was
\* running: that reader is stopped, none replaces it and the status is the
\* invalid-baud message.
C7_RejectedWhileConnected ==
    /\ baud_var = NotANumber
    /\ status_var = <<"Invalid baud rate">>
    /\ reader = None
    /\ \E w \in Workers : workers[w].stop /\ Alive(w)
    /\ \A w \in Workers : w > 1 => workers[w].pc = "unborn"

\* Messages of worker w still in the queue
Queued(w, kind) ==
    \E i \in 1..Len(queue) : queue[i].src = w /\ queue[i].kind = kind

\* Worker w's read loop ended with a SerialException and the poll cycle has
\* consumed its error message
ReadErrorShown(w) ==
    /\ workers[w].raised = "read"
    /\ workers[w].pc # "put_read_error"
    /\ ~Queued(w, "__ERROR__")

\* C8: when a worker's read loop ends with a connection error, its readings are
\* all in the grid before its error is shown, and once the error has been shown
\* no cell changes until the user connects again (read here in the weakest way:
\* a cell changes only for a reading of a worker started later).
C8_ReadingsBeforeError ==
    \A w \in Workers : ReadErrorShown(w) => ~Queued(w, "value")

C8_QuietStep ==
    \A w \in Workers :
        (ReadErrorShown(w) /\ labels' # labels) => Head(queue).src > w

C8_ErrorEndsUpdates == []C8_ReadingsBeforeError /\ [][C8_QuietStep]_vars

\* C9: after a read failure of the current reader, once every message it
\* enqueued has been consumed, the status readout shows the error message
\* (reader = w: no Connect or Disconnect has run since w was started).
C9_ErrorStatusStays ==
    \A w \in Workers :
        ( /\ reader = w
          /\ workers[w].raised = "read"
          /\ workers[w].pc = "done"
          /\ \A i \in 1..Len(queue) : queue[i].src # w )
        => status_var = <<"Error: ", "Read error: ", "<e>">>

\* C10: a worker whose open fails enqueues exactly one message, the open-failed
\* error, and terminates without entering the read loop; when that message is
\* consumed the status readout shows the open-failure error.
C10_NeverInLoop ==
    \A w \in Workers :
        workers[w].raised = "open" =>
            /\ workers[w].pc \in {"put_open_failed", "done"}
            /\ workers[w].ser = "None"

C10_OpenFailedStep ==
    /\ \A w \in Workers :
          workers'[w].raised = "open" =>
              \/ /\ workers'[w].pc = workers[w].pc
                 /\ Len(queue') > Len(queue) => queue'[Len(queue')].src # w
              \/ /\ workers[w].pc = "started"
                 /\ workers'[w].pc = "put_open_failed"
                 /\ queue' = queue
              \/ /\ workers[w].pc = "put_open_failed"
                 /\ workers'[w].pc = "done"
                 /\ queue' = Append(queue,
                        [kind |-> "__ERROR__", payload |-> <<"Open failed: ", "<e>">>,
                         src |-> w])
    /\ (ConsumesKind("__ERROR__") /\ workers[Head(queue).src].raised = "open") =>
          status_var' = <<"Error: ", "Open failed: ", "<e>">>

SaidDisconnected(w) ==
    \E i \in 1..Len(queue) :
        /\ queue[i].src = w
        /\ queue[i].kind = "__STATUS__"
        /\ queue[i].payload = <<"Disconnected">>

\* C11: every worker on which stop() is invoked while it runs, in whatever phase
\* (before its open, while its open is failing, inside the read loop), eventually
\* enqueues a "Disconnected" status message.
C11_StopAnnounced ==
    \A w \in Workers : (workers[w].stop /\ Alive(w)) ~> SaidDisconnected(w)

\* C12: under fair scheduling of the workers, with every blocking read
\* returning, every worker on which stop() has been invoked eventually
\* terminates, and a terminated worker never holds an open serial connection
\* (also when stop() arrived before the worker had opened it).
C12_ClosedWhenDone ==
    \A w \in Workers : workers[w].pc = "done" => workers[w].ser # "open"

C12_Terminates ==
    \A w \in Workers : workers[w].stop ~> (workers[w].pc = "done")

C12_Cancellation == []C12_ClosedWhenDone /\ C12_Terminates

\* C12 witness: a worker that was stopped has opened its port, found the stop
\* signal at the loop test without reading anything, closed the port and
\* terminated.
C12_StoppedAndClosed ==
    \E w \in Workers :
        /\ workers[w].stop
        /\ workers[w].pc = "done"
        /\ workers[w].ser = "closed"
        /\ workers[w].raised = "none"
        /\ wire = script
        /\ SaidDisconnected(w)


\* A step of worker w's run(): its position in run() moves
WorkerStep(w) ==
    /\ workers[w].pc # "unborn"
    /\ workers'[w].pc # workers[w].pc

\* C13: a step of a worker changes only that worker's own state and the tail of
\* the queue: the status readout, the last-value readout, the write cursor, the
\* grid cells and the controller's reader reference are as before, the other
\* workers are as before, and the queue is as before or one message longer.
C13_WorkerFrame ==
    \A w \in Workers :
        WorkerStep(w) =>
            /\ status_var' = status_var
            /\ last_value' = last_value
            /\ index' = index
            /\ labels' = labels
            /\ reader' = reader
            /\ \A v \in Workers : v # w => workers'[v] = workers[v]
            /\ \/ queue' = queue
               \/ /\ Len(queue') = Len(queue) + 1
                  /\ SubSeq(queue', 1, Len(queue)) = queue
                  /\ queue'[Len(queue')].src = w

C13_WorkerTouchesOnlyQueue == [][C13_WorkerFrame]_vars

\* C13 witness: a worker has run from its open to the end of run(), with its
\* messages queued, and the UI still shows what Connect left: the "Connecting"
\* status, no last value, cursor 0 and a blank first cell.
C13_RanBesideUntouchedUI ==
    \E w \in Workers :
        /\ workers[w].pc = "done"
        /\ SaidDisconnected(w)
        /\ Queued(w, "value")
        /\ reader = w
        /\ Head(status_var) = "Connecting to "
        /\ last_value = <<"U+2014">>
        /\ index = 0
        /\ Cell(0).text = <<>>


\* The bytes the reader of the connection has read so far, b0, b1, ...
Delivered == SubSeq(script, 1, Len(script) - Len(wire))

\* Readings on their way: held by the reader before its put, and queued
InHand == IF workers[1].pc = "put_value" THEN 1 ELSE 0
QueuedValues == SelectSeq(queue, LAMBDA m : m.kind = "value")

\* How many of the delivered bytes the poll cycle has placed in the grid
Shown == Len(Delivered) - Len(QueuedValues) - InHand

\* What cell k shows when the cursor was c at the start of the connection and
\* the first n delivered bytes have been placed
C14_Expected(c, n, k) ==
    IF \E i \in 1..n : (c + i - 1) % 200 = k
    THEN LET i == CHOOSE j \in 1..n : (c + j - 1) % 200 = k
         IN [text |-> Str(Delivered[i]), bg |-> C4_Rule(Delivered[i])]
    ELSE IF k < c THEN [text |-> <<"5">>, bg |-> "red"]
    ELSE [text |-> <<>>, bg |-> "white"]

\* C14: with a single connection in raw mode the readings reach the grid in
\* device order, none lost and none twice: with b the bytes delivered and c the
\* cursor at the start, the first Shown of them are in cells (c + i) mod 200 as
\* decimal text with the colour of the byte and every other cell is as it was,
\* the rest are in the queue in order (the last perhaps still held by the
\* reader), and the last-value readout shows the last one placed; bytes
\* 5, 25, 65, 15 from cursor 0 end as "5", "25", "65", "15" in cells 0..3, red,
\* yellow, green, red, with last value "15".
C14_InDeviceOrder ==
    ~TEXT_MODE =>
        /\ Shown >= 0
        /\ \E c \in {0, 198, 199} :
              /\ nconsumed = c + Shown
              /\ \A k \in 0..199 : Cell(k) = C14_Expected(c, Shown, k)
        /\ \A i \in 1..Len(QueuedValues) :
              QueuedValues[i].payload = Str(Delivered[Shown + i])
        /\ InHand = 1 => workers[1].val = Str(Delivered[Len(Delivered)])
        /\ Shown > 0 => last_value = Str(Delivered[Shown])
        /\ ( /\ script = <<5, 25, 65, 15>>
             /\ Shown = 4
             /\ nconsumed = 4 )
           => /\ Cell(0) = [text |-> <<"5">>, bg |-> "red"]
              /\ Cell(1) = [text |-> <<"2", "5">>, bg |-> "yellow"]
              /\ Cell(2) = [text |-> <<"6", "5">>, bg |-> "green"]
              /\ Cell(3) = [text |-> <<"1", "5">>, bg |-> "red"]
              /\ last_value = <<"1", "5">>

\* C14 witness: the scenario's four bytes, delivered from a fresh start and
\* drained, are shown in cells 0..3 in order with last value "15".
C14_ScenarioShown ==
    /\ ~TEXT_MODE
    /\ Delivered = <<5, 25, 65, 15>>
    /\ queue = <<>>
    /\ index = 4
    /\ Cell(0).text = <<"5">>
    /\ Cell(1).text = <<"2", "5">>
    /\ Cell(2).text = <<"6", "5">>
    /\ Cell(3) = [text |-> <<"1", "5">>, bg |-> "red"]
    /\ last_value = <<"1", "5">>


\* C15: every poll cycle terminates: once process_queue has begun it reaches
\* the empty-queue condition and reschedules itself, also while the reader
\* keeps enqueuing; and a cycle that finds the queue empty changes nothing but
\* its own rescheduling.
C15_EmptyCycle ==
    (uiPc = "polling" /\ queue = <<>> /\ uiPc' = "idle") =>
        UNCHANGED <<status_var, last_value, index, labels, reader, workers,
                    queue, port_var, baud_var>>

C15_PollCycleEnds ==
    /\ (uiPc = "polling") ~> (uiPc = "idle")
    /\ [][C15_EmptyCycle]_vars


\* The messages worker w has put, in order (the queue holds them all where the
\* timer of process_queue has not fired)
MessagesOf(w) == SelectSeq(queue, LAMBDA m : m.src = w)

\* The four sorts of message of the protocol
IsConnected(m) == m.kind = "__STATUS__" /\ Head(m.payload) = "Connected: "
IsDisconnected(m) == m.kind = "__STATUS__" /\ m.payload = <<"Disconnected">>
IsReadError(m) == m.kind = "__ERROR__" /\ Head(m.payload) = "Read error: "
IsValue(m) == m.kind = "value"

\* Worker w's open has succeeded
Opened(w) == workers[w].ser # "None"

\* C16: the messages of a worker that opened successfully are, in order, one
\* "Connected" status, then values, then at most one read error, then one
\* "Disconnected" status: at every moment what it has put is a prefix of that
\* form, nothing follows "Disconnected", no value follows the error, and once
\* run() has returned the sequence is complete.
C16_ProtocolOrder ==
    \A w \in Workers :
        Opened(w) =>
            LET M == MessagesOf(w)
                n == Len(M)
            IN /\ \A i \in 1..n :
                     \/ IsConnected(M[i]) /\ i = 1
                     \/ IsValue(M[i]) /\ i > 1
                     \/ IsReadError(M[i]) /\ i > 1
                     \/ IsDisconnected(M[i]) /\ i > 1 /\ i = n
               /\ \A i \in 1..n : \A j \in (i + 1)..n :
                     IsReadError(M[i]) => (IsDisconnected(M[j]) /\ j = i + 1)
               /\ workers[w].pc = "done" => (n >= 2 /\ IsDisconnected(M[n]))
               /\ workers[w].pc \notin {"put_connected"} => n >= 1

\* C16 witness: a worker has returned from run() having put "Connected", a
\* value, a read error and "Disconnected", in that order.
C16_FullProtocolRun ==
    \E w \in Workers :
        LET M == MessagesOf(w)
        IN /\ workers[w].pc = "done"
           /\ Len(M) = 4
           /\ IsConnected(M[1])
           /\ IsValue(M[2])
           /\ IsReadError(M[3])
           /\ IsDisconnected(M[4])


\* Worker w is connected: its open succeeded and it is in its read loop
InReadLoop(w) ==
    /\ workers[w].ser = "open"
    /\ workers[w].pc \in {"loop", "read", "put_value"}

\* C17: whenever the current worker has opened its connection, is still in its
\* read loop and every queued message has been consumed, the status readout
\* shows that worker's "Connected" text.
C17_StatusAgrees ==
    \A w \in Workers :
        (reader = w /\ InReadLoop(w) /\ queue = <<>>) =>
            status_var = <<"Connected: ">> \o workers[w].port \o <<" @ ">>
                            \o Str(workers[w].baud) \o <<" (", "raw 8-bit", ")">>


\* The poll cycle has consumed worker w's "Connected" message: w has put it and
\* it is no longer in the queue
ConnectedShown(w) ==
    /\ Opened(w)
    /\ workers[w].pc # "put_connected"
    /\ \A i \in 1..Len(queue) : ~(queue[i].src = w /\ IsConnected(queue[i]))

\* C18: once the poll cycle has consumed the "Connected" message of the worker
\* started by the latest Connect, every value placed into the grid was
\* enqueued by that worker.
C18_ValueStep ==
    (reader # None /\ ConnectedShown(reader) /\ ConsumesKind("value")) =>
        Head(queue).src = reader

C18_OnlyCurrentReadings == [][C18_ValueStep]_vars


\* A step of a button handler, told by what only such a step changes: the
\* controller's reader reference, a worker's stop flag, a worker object coming
\* into being, the status set while no message is taken, or the port field
ButtonStep ==
    \/ reader' # reader
    \/ \E w \in Workers : workers'[w].stop # workers[w].stop
    \/ \E w \in Workers : workers[w].pc = "unborn" /\ workers'[w].pc # "unborn"
    \/ status_var' # status_var /\ ~Consumes
    \/ port_var' # port_var
    \/ baud_var' # baud_var

\* C19: Connect, Disconnect and Refresh leave every cell's text and colour, the
\* write cursor, the last-value readout and the queue as they were.
C19_ButtonFrame ==
    ButtonStep =>
        /\ labels' = labels
        /\ index' = index
        /\ last_value' = last_value
        /\ queue' = queue

C19_ButtonsKeepGrid == [][C19_ButtonFrame]_vars

\* C19 witness: after a reading was placed in cell 0 the user has connected
\* again: the new worker is started, cell 0 and the last value still show the
\* reading and the cursor is still at cell 1.
C19_ReconnectedMidGrid ==
    /\ reader = 2
    /\ workers[2].pc = "started"
    /\ workers[1].stop
    /\ index = 1
    /\ Cell(0) = [text |-> <<"1", "9">>, bg |-> "red"]
    /\ last_value = <<"1", "9">>


=============================================================================
